---------------------------- MODULE Spec2Model ----------------------------
(***************************************************************************)
(* crypto-ticker: the CoinGecko client of src/api.py (APIState, the        *)
(* response cache, the tenacity retry pipeline _make_request, get_prices)  *)
(* driven by the UI thread of src/main.py (pause, resume, retry settings)  *)
(* while one caller thread runs a get_prices call step by step.            *)
(*                                                                         *)
(* Time (time.time(), a float) is counted in equal parts of a second,      *)
(* UnitsPerSecond to the second.  Python's None is the empty tuple and an  *)
(* optional value v is <<v>>.  An error message is a tuple of its text     *)
(* parts: str(e) is <<e>>, f"Rate limited: {e}" is                         *)
(* <<"Rate limited: ", e>>.  A dict is a function.  A JSON number n is     *)
(* [type |-> "number", value |-> n], JSON null is [type |-> "null"].       *)
(***************************************************************************)
EXTENDS Integers, Sequences, FiniteSets, TLC

(* ------------------------------ bounds --------------------------------- *)

\* the clock advances at most this many times
MaxTicks == 2

\* the largest retry budget tried (the settings dialog allows 1..10)
MaxAttempts == 3

\* with the cached lists called directly: the clock advances at most this
\* many times
MaxCacheTicks == 1

\* with the cached lists called directly, and with get_prices on its own: a
\* call starts only below this many consecutive failures
MaxCacheFailures == 1

\* with get_prices on its own: the longest list of symbols asked for
MaxSymbols == 2

\* a new get_prices call starts only below this many consecutive failures
MaxFailures == 11

\* with the scheduler of main.py: the clock advances at most this many times
MaxSchedTicks == 2

\* with the scheduler of main.py: at most this many single-shot timers wait
\* to fire
MaxSingleShots == 1

\* with the tracker's assignments taken one by one: record_failure begins
\* only below this many consecutive failures
MaxRaceFailures == 11

(* ------------------------- program constants --------------------------- *)

\* api.py:38  if self.consecutive_failures >= 10
FailureThreshold == 10

\* time.time() has fractions of a second: the clock counts this many units
\* to the second
UnitsPerSecond == 2

\* api.py:40  time.time() + (30 * 60), in clock units
AutoPauseSeconds == 30 * 60 * UnitsPerSecond

\* api.py:65  CACHE_DURATION = timedelta(hours=24)
CACHE_DURATION == 24 * 60 * 60 * UnitsPerSecond

\* the retry budgets tried: no retry at all, and the largest
AttemptChoices == {1, MaxAttempts}

\* the amounts by which the clock advances in one step
TickSteps == {1, AutoPauseSeconds - 1}

None == <<>>

Some(v) == <<v>>

\* Python truthiness of an Optional[float]: None and 0.0 are both false
Truthy(opt) == opt # None /\ opt[1] # 0

EmptyMap == <<>>

(* ------------------------------ APIState ------------------------------- *)

\* should_skip with the window's end taken as still inside the window
should_skip_inclusive(s, t) ==
    IF s.paused
    THEN TRUE
    ELSE IF Truthy(s.auto_pause_until) /\ t <= s.auto_pause_until[1]
         THEN TRUE
         ELSE FALSE

should_skip(s, t) ==
    IF s.paused
    THEN TRUE
    ELSE IF Truthy(s.auto_pause_until) /\ t < s.auto_pause_until[1]
         THEN TRUE
         ELSE FALSE

\* record_failure arming one failure late
record_failure_arms_late(s, error, t) ==
    LET n == s.consecutive_failures + 1
    IN  [s EXCEPT !.consecutive_failures = n,
                  !.last_error = error,
                  !.auto_pause_until =
                      IF n > FailureThreshold
                      THEN Some(t + AutoPauseSeconds)
                      ELSE @]

\* record_failure arming only when the counter crosses the threshold
record_failure_arms_once(s, error, t) ==
    LET n == s.consecutive_failures + 1
    IN  [s EXCEPT !.consecutive_failures = n,
                  !.last_error = error,
                  !.auto_pause_until =
                      IF n = FailureThreshold
                      THEN Some(t + AutoPauseSeconds)
                      ELSE @]

record_failure(s, error, t) ==
    LET n == s.consecutive_failures + 1
    IN  [s EXCEPT !.consecutive_failures = n,
                  !.last_error = error,
                  !.auto_pause_until =
                      IF n >= FailureThreshold
                      THEN Some(t + AutoPauseSeconds)
                      ELSE @]

\* int(x) of a float given in clock units: the whole seconds, cut towards 0
int(x) == IF x >= 0 THEN x \div UnitsPerSecond ELSE -((-x) \div UnitsPerSecond)

max(a, b) == IF a >= b THEN a ELSE b

\* api.py:53-58
get_auto_resume_remaining(s, t) ==
    IF Truthy(s.auto_pause_until)
    THEN LET remaining == s.auto_pause_until[1] - t
         IN  Some(max(0, int(remaining)))
    ELSE None

\* record_success resetting the window as well
record_success_clears_window(s) ==
    [s EXCEPT !.consecutive_failures = 0, !.last_error = None,
              !.auto_pause_until = None]

\* record_success lifting the user's pause as well
record_success_unpauses(s) ==
    [s EXCEPT !.consecutive_failures = 0, !.last_error = None,
              !.paused = FALSE]

record_success(s) ==
    [s EXCEPT !.consecutive_failures = 0, !.last_error = None]

\* resume leaving the window armed
resume_keeps_window(s) ==
    [s EXCEPT !.paused = FALSE, !.consecutive_failures = 0]

resume(s) ==
    [s EXCEPT !.paused = FALSE,
              !.auto_pause_until = None,
              !.consecutive_failures = 0]

(* ------------------------------ messages ------------------------------- *)

\* str(e) of the exception that left do_request, or of the observer's
ExcText(kind) ==
    CASE kind = "RateLimitError_http" -> "Rate limited by API"
      [] kind = "RateLimitError_body" -> "error_message"
      [] kind = "RequestException"    -> "request failed"
      [] kind = "ValueError"          -> "invalid json"
      [] OTHER                        -> "observer failed"

IsRateLimit(kind) == kind \in {"RateLimitError_http", "RateLimitError_body"}

\* api.py:148 and api.py:152: the message handed to record_failure
FailureMessage(kind) ==
    IF IsRateLimit(kind)
    THEN <<"Rate limited: ", ExcText(kind)>>
    ELSE <<ExcText(kind)>>

(* --------------------------- symbols and data --------------------------- *)

Lower(sym) ==
    CASE sym = "BTC" -> "btc"
      [] sym = "ETH" -> "eth"
      [] OTHER       -> sym

SymbolLists == { <<>>, <<"BTC", "unknownsym">>, <<"unknownsym">> }

DefaultCoinList ==
    << [id |-> "bitcoin", symbol |-> "btc"],
       [id |-> "ethereum", symbol |-> "eth"] >>

\* what /coins/list may answer: a list of coins, possibly empty
CoinListPayloads ==
    { <<>>,
      << [id |-> "bitcoin", symbol |-> "BTC"] >> }

\* a JSON number; the prices modelled are in the range where float() is exact
Number(n) == [type |-> "number", value |-> n]

\* JSON null, which response.json() decodes to Python's None
JsonNull == [type |-> "null"]

\* what /simple/price may answer for usd: a dict id -> {currency -> price}
PricePayloads ==
    { EmptyMap,
      [i \in {"bitcoin"} |-> [c \in {"usd"} |-> Number(5)]],
      [i \in {"bitcoin"} |-> [c \in {"eur"} |-> Number(4)]],
      [i \in {"bitcoin"} |-> [c \in {"usd"} |-> JsonNull]] }

\* api.py:168
DefaultCurrencies ==
    << "usd", "eur", "gbp", "jpy", "cad", "aud", "chf", "cny" >>

\* what /simple/supported_vs_currencies may answer: a list of codes
CurrencyPayloads == { <<>>, <<"usd">>, <<"usd", "eur">> }

Payloads(r) ==
    CASE r = "coin_list"            -> CoinListPayloads
      [] r = "supported_currencies" -> CurrencyPayloads
      [] OTHER                      -> PricePayloads

\* {coin["symbol"].lower(): coin["id"] for coin in coin_list}: the last wins
SymbolToId(coin_list) ==
    LET syms == { Lower(coin_list[k].symbol) : k \in DOMAIN coin_list }
        last(s) == CHOOSE k \in DOMAIN coin_list :
                      /\ Lower(coin_list[k].symbol) = s
                      /\ \A j \in DOMAIN coin_list :
                            Lower(coin_list[j].symbol) = s => j <= k
    IN  [s \in syms |-> coin_list[last(s)].id]

\* api.py:209-216: the ids of the requested symbols that resolve, in order
RECURSIVE ResolveIds(_, _)
ResolveIds(syms, index) ==
    IF syms = <<>>
    THEN <<>>
    ELSE LET sym_lower == Lower(Head(syms))
         IN  IF sym_lower \in DOMAIN index
             THEN <<index[sym_lower]>> \o ResolveIds(Tail(syms), index)
             ELSE ResolveIds(Tail(syms), index)

\* api.py:210-216: symbol_map, id -> lower-cased symbol, the last wins
SymbolMap(syms, index) ==
    LET hits == { k \in DOMAIN syms : Lower(syms[k]) \in DOMAIN index }
        last(i) == CHOOSE k \in hits :
                      /\ index[Lower(syms[k])] = i
                      /\ \A j \in hits : index[Lower(syms[j])] = i => j <= k
    IN  [i \in { index[Lower(syms[k])] : k \in hits } |-> Lower(syms[last(i)])]

\* api.py:234: the response entries that get_prices maps back
Hits(response, smap, currency) ==
    { i \in DOMAIN response :
         i \in DOMAIN smap /\ currency \in DOMAIN response[i] }

\* float(v) raises TypeError for None
float_raises(v) == v.type # "number"

\* float(v) of a JSON number
float(v) == v.value

\* api.py:235: float() raises on one of the entries mapped back
MapBackRaises(response, smap, currency) ==
    \E i \in Hits(response, smap, currency) :
        float_raises(response[i][currency])

\* mapping back without looking for the requested currency
MapBack_any_currency(response, smap, currency) ==
    LET hit == { i \in DOMAIN response : i \in DOMAIN smap }
        last(s) == CHOOSE i \in hit : smap[i] = s
        some(i) == CHOOSE c \in DOMAIN response[i] : TRUE
    IN  [s \in { smap[i] : i \in hit } |-> float(response[last(s)][some(last(s))])]

\* api.py:232-237: map the response back to the requested symbols
MapBack(response, smap, currency) ==
    LET hit == Hits(response, smap, currency)
        last(s) == CHOOSE i \in hit : smap[i] = s
    IN  [s \in { smap[i] : i \in hit } |-> float(response[last(s)][currency])]

(* ------------------------------- state --------------------------------- *)

VARIABLES
    state,           \* CoinGeckoAPI.state : APIState
    retry_attempts,  \* CoinGeckoAPI.retry_attempts
    cache,           \* the cache directory: per key None (no file) or
                     \* <<[mtime, text]>>
    now,             \* time.time()
    ticks,           \* how often the clock has advanced
    zone,            \* the local time zone: its UTC offsets so far, each
                     \* with the instant since which it is in force
    disk,            \* the cache directory's condition: what open, read and
                     \* write do there at the moment
    pc,              \* where the caller thread stands
    symbols,         \* get_prices: the symbols argument
    req,             \* _make_request: which endpoint ("none" outside a call)
    budget,          \* _make_request: stop_after_attempt(self.retry_attempts)
    http_calls,      \* _make_request: session.get calls made by this call
    exc,             \* _make_request: the exception being handled, or "none"
    data,            \* _make_request: what it returns, None or <<payload>>
    raised,          \* an exception is crossing to the caller
    ret,             \* get_prices: the returned dict
    symbol_map,      \* get_prices: id -> requested symbol
    coin_list,       \* get_prices: what get_coin_list returned, once it has
    cached,          \* get_coin_list, get_supported_currencies: what
                     \* _load_cache returned
    only_transport,  \* history: every attempt so far failed at transport level
    rl_at,           \* history: the first attempt that was rate limited, or 0
    n_success,       \* history: record_success calls of this _make_request
    n_failure,       \* history: record_failure calls of this _make_request
    n_notify,        \* history: observer notifications of this _make_request
    saved,           \* history: per key, the payload of the last _save_cache
                     \* call and when it was made, if that call wrote it all
    observer_failed, \* history: the observer raised during this call
    armed_at,        \* history: when the 10th failure in a row was recorded
    streak,          \* history: record_failure calls since the last
                     \* record_success, resume() or construction
    fetch_thread,    \* main.py: self._fetch_thread, "none" before the first,
                     \* "running" from start() until run() has returned
    runs,            \* history: PriceFetchThread.run executions under way
    singleshots,     \* QTimer.singleShot(100, self._update_price) calls
                     \* that have not fired yet
    fetch_pos,       \* PriceWorker.fetch: "none" outside it, else the
                     \* get_prices call it is in
    ui_pc,           \* where the UI thread stands inside resume()
    rec_pc,          \* where the worker thread stands inside
                     \* record_failure or record_success
    reg              \* record_failure: the counter as read for "+= 1"

\* the client, its cache directory, and what was last saved there
apiVars  == <<state, retry_attempts, cache, saved>>
envVars  == <<now, ticks, zone, disk>>
callVars == <<pc, symbols, req, budget, http_calls, exc, data, raised, ret,
              symbol_map, coin_list, cached>>
histVars == <<only_transport, rl_at, n_success, n_failure, n_notify>>
\* the scheduler of main.py and the two threads' places inside the tracker
schedVars  == <<fetch_thread, runs, singleshots, fetch_pos>>
raceVars   == <<ui_pc, rec_pc, reg>>
threadVars == <<schedVars, raceVars>>
vars     == <<apiVars, envVars, callVars, histVars, observer_failed, armed_at,
              streak, threadVars>>

vs_currency == "usd"

\* what an attempt of do_request can end with
Outcomes == {"ok", "transport", "http_error", "http_429", "body_429", "bad_json"}

\* APIState() as constructed, api.py:21-24
NewAPIState ==
    [paused |-> FALSE, consecutive_failures |-> 0,
     auto_pause_until |-> None, last_error |-> None]

\* api.py:80-82: the names under which the client caches
CacheKeys == {"coin_list", "supported_currencies"}

\* a daylight-saving change moves local time by one hour
DstShift == 60 * 60 * UnitsPerSecond

StandardTime == << [since |-> 0, offset |-> 0] >>

SummerTime == << [since |-> 0, offset |-> DstShift] >>

\* the UTC offset of local time in force at instant t
UtcOffsetAt(t, z) ==
    LET k == CHOOSE k \in DOMAIN z :
                 /\ z[k].since <= t
                 /\ \A j \in DOMAIN z : z[j].since <= t => j <= k
    IN  z[k].offset

\* datetime.fromtimestamp(t), and datetime.now() for t = time.time(): the
\* naive local time of instant t (api.py:88-89)
fromtimestamp(t, z) == t + UtcOffsetAt(t, z)

\* everything of the constructed program but the time zone of the machine
InitProgram ==
    /\ state = NewAPIState
    /\ retry_attempts \in AttemptChoices
    /\ cache = [k \in CacheKeys |-> None]
    /\ now = 0
    /\ ticks = 0
    /\ pc = "idle"
    /\ symbols = <<>>
    /\ req = "none"
    /\ budget = 0
    /\ http_calls = 0
    /\ exc = "none"
    /\ data = None
    /\ raised = FALSE
    /\ ret = EmptyMap
    /\ symbol_map = EmptyMap
    /\ coin_list = None
    /\ cached = None
    /\ only_transport = TRUE
    /\ rl_at = 0
    /\ n_success = 0
    /\ n_failure = 0
    /\ n_notify = 0
    /\ observer_failed = FALSE
    /\ saved = [k \in CacheKeys |-> None]
    /\ armed_at = None
    /\ streak = 0
    /\ fetch_thread = "none"
    /\ runs = 0
    /\ singleshots = 0
    /\ fetch_pos = "none"
    /\ ui_pc = "idle"
    /\ rec_pc = "idle"
    /\ reg = 0

\* after CryptoTicker.__init__: the client is built, the retry settings are
\* loaded from the settings file and the observer is registered
Init ==
    /\ InitProgram
    /\ zone = StandardTime
    /\ disk = "ok"

(* ---------------------------- the UI thread ---------------------------- *)

\* time passes
Tick ==
    /\ ticks < MaxTicks
    /\ \E d \in TickSteps : now' = now + d
    /\ ticks' = ticks + 1
    /\ UNCHANGED <<zone, disk>>
    /\ UNCHANGED <<apiVars, callVars, histVars, observer_failed, armed_at, streak>>
    /\ UNCHANGED threadVars

\* CoinGeckoAPI.pause; an exception of the observer goes to the Qt slot
Pause ==
    /\ state' = [state EXCEPT !.paused = TRUE]
    /\ UNCHANGED <<retry_attempts, cache, saved, envVars, callVars, histVars,
                   observer_failed, armed_at, streak>>
    /\ UNCHANGED threadVars

\* CoinGeckoAPI.resume; an exception of the observer goes to the Qt slot
Resume ==
    /\ state' = resume(state)
    /\ armed_at' = None
    /\ streak' = 0
    /\ UNCHANGED <<retry_attempts, cache, saved, envVars, callVars, histVars,
                   observer_failed>>
    /\ UNCHANGED threadVars

UpdateRetrySettings ==
    /\ \E attempts \in AttemptChoices :
          /\ attempts # retry_attempts
          /\ retry_attempts' = attempts
    /\ UNCHANGED <<state, cache, saved, envVars, callVars, histVars, observer_failed,
                   armed_at, streak>>
    /\ UNCHANGED threadVars

(* ------------------------------ the cache ------------------------------ *)

\* json.dump(data, f) that ran to the end: the text of the file
json_dump(payload) == [complete |-> TRUE, utf8 |-> TRUE, doc |-> payload]

\* json.dump(data, f) cut short by an IOError: the file holds a part of it
json_dump_cut(payload) == [complete |-> FALSE, utf8 |-> TRUE, doc |-> payload]

\* bytes that are not UTF-8 text, where a file's text was
damaged(text) == [text EXCEPT !.complete = FALSE, !.utf8 = FALSE]

\* api.py:96-97: the file is opened with encoding="utf-8", and reading
\* bytes that are not UTF-8 raises UnicodeDecodeError, a ValueError that is
\* neither a JSONDecodeError nor an IOError
read_raises(text) == ~text.utf8

\* json.load(f) raises JSONDecodeError on a text that is not a whole document
json_load_raises(text) == ~text.complete

json_load(text) == text.doc

\* the cache never expiring
_is_cache_valid_forever(file, t, z) == file # None

\* api.py:84-89
_is_cache_valid(file, t, z) ==
    IF file = None
    THEN FALSE
    ELSE fromtimestamp(t, z) - fromtimestamp(file[1].mtime, z) < CACHE_DURATION

\* what the cache directory can be like: in order; open(path, "r") raises
\* IOError; open(path, "w") raises IOError; writes raise IOError part-way
DiskConditions == {"ok", "unreadable", "readonly", "full"}

\* api.py:91-100
_load_cache(file, t, z, d) ==
    IF _is_cache_valid(file, t, z)
    THEN IF d # "unreadable" /\ ~json_load_raises(file[1].text)
         THEN Some(json_load(file[1].text))
         ELSE None
    ELSE None

\* api.py:91-100: the exception that leaves _load_cache, if any; "except
\* (json.JSONDecodeError, IOError)" lets a UnicodeDecodeError through
_load_cache_raises(file, t, z, d) ==
    /\ _is_cache_valid(file, t, z)
    /\ d # "unreadable"
    /\ read_raises(file[1].text)

\* api.py:102-109; open(path, "w") truncates the file before json.dump runs
_save_cache(file, payload, t, d) ==
    CASE d = "readonly" -> file
      [] d = "full"     -> Some([mtime |-> t, text |-> json_dump_cut(payload)])
      [] OTHER          -> Some([mtime |-> t, text |-> json_dump(payload)])

\* "is not None" in place of truthiness
TruthyData_not_none(d) == d # None

\* Python truthiness of what _load_cache or _make_request returned
TruthyData(d) == d # None /\ d[1] # <<>>

(* --------------------------- the caller thread ------------------------- *)

\* get_prices without its should_skip guard
get_prices_ignores_skip(syms, s, t) == syms = <<>>

\* get_prices without its first guard
get_prices_checks_skip_only(syms, s, t) == should_skip(s, t)

\* api.py:198-202: the two early returns of get_prices
get_prices_returns_early(syms, s, t) ==
    IF syms = <<>>
    THEN TRUE
    ELSE should_skip(s, t)

\* api.py:118: the guard of _make_request
make_request_skips(s, t) == should_skip(s, t)

\* a budget of one attempt more than the setting
stop_after_attempt_one_more(n) == n + 1

\* api.py:123: stop=stop_after_attempt(self.retry_attempts), the setting as
\* it is when _make_request builds the decorator
stop_after_attempt(n) == n

\* stop_after_attempt off by one
retry_stops_late(attempt_number, max_attempt_number) ==
    attempt_number > max_attempt_number

\* api.py:123: stop_after_attempt(n) stops once attempt_number >= n
retry_stops(attempt_number, max_attempt_number) ==
    attempt_number >= max_attempt_number

\* api.py:129-140: what one attempt of do_request raises ("none": it returns
\* the decoded body).  A body that is not JSON raises requests'
\* JSONDecodeError: a RequestException in requests >= 2.27, a plain
\* ValueError before (json_is_request_exc).
do_request_raises(outcome, json_is_request_exc) ==
    CASE outcome = "ok"         -> "none"
      [] outcome = "transport"  -> "RequestException"
      [] outcome = "http_429"   -> "RateLimitError_http"
      [] outcome = "http_error" -> "RequestException"
      [] outcome = "bad_json"   -> IF json_is_request_exc
                                   THEN "RequestException"
                                   ELSE "ValueError"
      [] OTHER                  -> "RateLimitError_body"

\* retrying on every exception, the rate limit included
retry_if_any(kind) == kind # "none"

\* api.py:125: retry=retry_if_exception_type(requests.RequestException)
retry_if(kind) == kind = "RequestException"

\* api.py:206-229: with the coin list in hand, resolve the symbols and go on
\* to the price request, or return {} when none resolved
\* a price request whatever resolved
not_ids_never(ids) == FALSE

\* api.py:218: "if not ids"
not_ids(ids) == ids = <<>>

AfterCoinList(coins) ==
    LET index == SymbolToId(coins)
        ids   == ResolveIds(symbols, index)
    IN  /\ coin_list' = Some(coins)
        /\ symbol_map' = SymbolMap(symbols, index)
        /\ IF not_ids(ids)
           THEN pc' = "returned" /\ req' = req
           ELSE pc' = "make_request" /\ req' = "price"

\* get_prices entered (api.py:187-202)
GetPrices ==
    /\ pc = "idle"
    /\ state.consecutive_failures < MaxFailures
    /\ \E syms \in SymbolLists :
          /\ symbols' = syms
          /\ pc' = IF get_prices_returns_early(syms, state, now)
                   THEN "returned"
                   ELSE "get_coin_list"
    /\ ret' = EmptyMap
    /\ UNCHANGED <<apiVars, envVars, req, budget, http_calls, exc, data,
                   raised, symbol_map, coin_list, cached, histVars, observer_failed,
                   armed_at, streak>>
    /\ UNCHANGED threadVars

\* get_coin_list up to its _make_request call (api.py:170-177); on a cache
\* hit get_prices goes on at once (api.py:206-225)
GetCoinList ==
    /\ pc = "get_coin_list"
    /\ IF _load_cache_raises(cache["coin_list"], now, zone, disk)
       THEN /\ raised' = TRUE
            /\ pc' = "returned"
            /\ UNCHANGED <<cached, req, symbol_map, coin_list>>
       ELSE /\ raised' = raised
            /\ cached' = _load_cache(cache["coin_list"], now, zone, disk)
            /\ IF TruthyData(cached')
               THEN AfterCoinList(cached'[1])
               ELSE /\ pc' = "make_request"
                    /\ req' = "coin_list"
                    /\ UNCHANGED <<symbol_map, coin_list>>
    /\ UNCHANGED <<apiVars, envVars, symbols, budget, http_calls, exc, data,
                   ret, histVars, observer_failed, armed_at, streak>>
    /\ UNCHANGED threadVars

\* _make_request entered: the should_skip guard, then the retry decorator
\* is built from the current settings (api.py:116-127)
MakeRequest ==
    /\ pc = "make_request"
    /\ IF make_request_skips(state, now)
       THEN pc' = "make_request_ret" /\ budget' = 0
       ELSE /\ pc' = "do_request"
            /\ budget' = stop_after_attempt(retry_attempts)
    /\ http_calls' = 0
    /\ exc' = "none"
    /\ data' = None
    /\ only_transport' = TRUE
    /\ rl_at' = 0
    /\ n_success' = 0
    /\ n_failure' = 0
    /\ n_notify' = 0
    /\ UNCHANGED <<apiVars, envVars, symbols, req, raised, ret, symbol_map,
                   coin_list, cached, observer_failed, armed_at, streak>>
    /\ UNCHANGED threadVars

\* one attempt of do_request under tenacity (api.py:122-140): a retryable
\* exception below the budget leads to the next attempt, after the wait
DoRequest ==
    /\ pc = "do_request"
    /\ http_calls' = http_calls + 1
    /\ \E outcome \in Outcomes, json_is_request_exc \in BOOLEAN :
          LET kind == do_request_raises(outcome, json_is_request_exc)
          IN  /\ only_transport' = (only_transport /\ outcome = "transport")
              /\ rl_at' = IF outcome \in {"http_429", "body_429"} /\ rl_at = 0
                          THEN http_calls + 1
                          ELSE rl_at
              /\ IF kind = "none"
                 THEN /\ \E p \in Payloads(req) : data' = Some(p)
                      /\ pc' = "try_success"
                      /\ exc' = exc
                 ELSE IF retry_if(kind) /\ ~retry_stops(http_calls + 1, budget)
                 THEN /\ pc' = "do_request"
                      /\ UNCHANGED <<exc, data>>
                 ELSE /\ exc' = kind
                      /\ pc' = "except"
                      /\ data' = data
    /\ UNCHANGED <<apiVars, envVars, symbols, req, budget, raised, ret,
                   symbol_map, coin_list, cached, n_success, n_failure, n_notify,
                   observer_failed, armed_at, streak>>
    /\ UNCHANGED threadVars

\* api.py:143-146: do_request returned; record_success, then the observer,
\* which runs inside the try block, so what it raises is handled by
\* "except Exception" (api.py:151)
TrySuccess ==
    /\ pc = "try_success"
    /\ state' = record_success(state)
    /\ n_success' = n_success + 1
    /\ n_notify' = n_notify + 1
    /\ \E observer_raises \in BOOLEAN :
          /\ observer_failed' = (observer_failed \/ observer_raises)
          /\ IF observer_raises
             THEN exc' = "observer" /\ pc' = "except"
             ELSE exc' = exc /\ pc' = "make_request_ret"
    /\ streak' = 0
    /\ UNCHANGED <<retry_attempts, cache, saved, envVars, symbols, req, budget,
                   http_calls, data, raised, ret, symbol_map, coin_list, cached,
                   only_transport, rl_at, n_failure, armed_at>>
    /\ UNCHANGED threadVars

\* api.py:147-154: a handler runs; record_failure, then the observer, and
\* inside a handler nothing catches what the observer raises
Except ==
    /\ pc = "except"
    /\ state' = record_failure(state, FailureMessage(exc), now)
    /\ n_failure' = n_failure + 1
    /\ streak' = streak + 1
    /\ armed_at' = IF streak' = FailureThreshold THEN Some(now) ELSE armed_at
    /\ n_notify' = n_notify + 1
    /\ data' = None
    /\ \E observer_raises \in BOOLEAN :
          /\ raised' = observer_raises
          /\ observer_failed' = (observer_failed \/ observer_raises)
    /\ pc' = "make_request_ret"
    /\ UNCHANGED <<retry_attempts, cache, saved, envVars, symbols, req, budget,
                   http_calls, exc, ret, symbol_map, coin_list, cached, only_transport,
                   rl_at, n_success>>
    /\ UNCHANGED threadVars

\* api.py:166 and api.py:179: the fetched payload is written to the cache
SavePayload(key) ==
    /\ cache' = [cache EXCEPT ![key] = _save_cache(@, data[1], now, disk)]
    /\ saved' = [saved EXCEPT ![key] = IF disk = "ok"
                                       THEN Some([at |-> now, payload |-> data[1]])
                                       ELSE None]

\* _make_request is back in its caller: get_coin_list (api.py:178-185) and
\* then get_prices (api.py:206-225), or get_prices (api.py:228-237), where
\* float() may raise
MakeRequestReturn ==
    /\ pc = "make_request_ret"
    /\ IF raised
       THEN /\ pc' = "returned"
            /\ UNCHANGED <<cache, saved, req, ret, symbol_map, coin_list, raised>>
       ELSE IF req = "coin_list"
       THEN IF TruthyData(data)
            THEN /\ SavePayload("coin_list")
                 /\ AfterCoinList(data[1])
                 /\ UNCHANGED <<ret, raised>>
            ELSE /\ AfterCoinList(DefaultCoinList)
                 /\ UNCHANGED <<cache, saved, ret, raised>>
       ELSE /\ IF ~TruthyData(data)
               THEN ret' = EmptyMap /\ raised' = FALSE
               ELSE IF MapBackRaises(data[1], symbol_map, vs_currency)
               THEN ret' = ret /\ raised' = TRUE
               ELSE /\ ret' = MapBack(data[1], symbol_map, vs_currency)
                    /\ raised' = FALSE
            /\ pc' = "returned"
            /\ UNCHANGED <<cache, saved, req, symbol_map, coin_list>>
    /\ UNCHANGED <<state, retry_attempts, envVars, symbols, budget,
                   http_calls, exc, data, cached, histVars, observer_failed,
                   armed_at, streak>>
    /\ UNCHANGED threadVars

\* get_prices has returned (or raised) and the caller thread is free again
Return ==
    /\ pc = "returned"
    /\ pc' = "idle"
    /\ symbols' = <<>>
    /\ req' = "none"
    /\ budget' = 0
    /\ http_calls' = 0
    /\ exc' = "none"
    /\ data' = None
    /\ raised' = FALSE
    /\ ret' = EmptyMap
    /\ symbol_map' = EmptyMap
    /\ coin_list' = None
    /\ cached' = None
    /\ only_transport' = TRUE
    /\ rl_at' = 0
    /\ n_success' = 0
    /\ n_failure' = 0
    /\ n_notify' = 0
    /\ observer_failed' = FALSE
    /\ UNCHANGED <<apiVars, envVars, armed_at, streak>>
    /\ UNCHANGED threadVars

Next ==
    \/ Tick
    \/ Pause
    \/ Resume
    \/ UpdateRetrySettings
    \/ GetPrices
    \/ GetCoinList
    \/ MakeRequest
    \/ DoRequest
    \/ TrySuccess
    \/ Except
    \/ MakeRequestReturn
    \/ Return

Spec == Init /\ [][Next]_vars

\* the steps of the caller thread inside a get_prices call: each ends, an
\* attempt after its 10-second timeout at the latest (api.py:129) and the
\* wait between two attempts after retry_wait seconds (api.py:124)
CallerStep ==
    \/ GetCoinList
    \/ MakeRequest
    \/ DoRequest
    \/ TrySuccess
    \/ Except
    \/ MakeRequestReturn

\* the program with a caller thread that the scheduler keeps running
SpecFair == Spec /\ WF_vars(CallerStep)

(* ----------------- the cached lists, called on their own --------------- *)

\* api.py:168 and api.py:182-185: what a cached list falls back to
DefaultFor(key) ==
    IF key = "coin_list" THEN DefaultCoinList ELSE DefaultCurrencies

\* the amounts by which the clock advances between two calls here: as long
\* as the cache lives, and an hour less
CacheTickSteps == {CACHE_DURATION - DstShift, CACHE_DURATION}

\* between two calls, as long as another call can start
BetweenCalls ==
    /\ pc = "idle"
    /\ state.consecutive_failures < MaxCacheFailures

\* time passes between two calls
CacheTick ==
    /\ BetweenCalls
    /\ ticks < MaxCacheTicks
    /\ \E d \in CacheTickSteps : now' = now + d
    /\ ticks' = ticks + 1
    /\ UNCHANGED <<zone, disk>>
    /\ UNCHANGED <<apiVars, callVars, histVars, observer_failed, armed_at, streak>>
    /\ UNCHANGED threadVars

\* daylight-saving time begins or ends: from now on local time is an hour
\* ahead of, or an hour behind, where it was; the two changes of a year are
\* months apart, so the days modelled see one of them at most
ZoneChange ==
    /\ BetweenCalls
    /\ zone \in {StandardTime, SummerTime}
    /\ zone' = Append(zone,
                      [since  |-> now,
                       offset |-> IF zone[Len(zone)].offset = 0
                                  THEN DstShift
                                  ELSE 0])
    /\ UNCHANGED <<now, ticks, disk>>
    /\ UNCHANGED <<apiVars, callVars, histVars, observer_failed, armed_at, streak>>
    /\ UNCHANGED threadVars

\* the cache directory becomes unreadable, read-only, full, or sound again
DiskChange ==
    /\ BetweenCalls
    /\ \E d \in DiskConditions : d # disk /\ disk' = d
    /\ UNCHANGED <<now, ticks, zone>>
    /\ UNCHANGED <<apiVars, callVars, histVars, observer_failed, armed_at, streak>>
    /\ UNCHANGED threadVars

\* the bytes of a cache file are damaged where they lie (a failing disk,
\* another program): its modification time stays, its text is lost
FileDamaged ==
    /\ BetweenCalls
    /\ \E key \in CacheKeys :
          /\ cache[key] # None
          /\ cache[key][1].text.utf8
          /\ cache' = [cache EXCEPT ![key] =
                           Some([@[1] EXCEPT !.text = damaged(@)])]
          /\ saved' = [saved EXCEPT ![key] = None]
    /\ UNCHANGED <<state, retry_attempts, envVars, callVars, histVars,
                   observer_failed, armed_at, streak>>
    /\ UNCHANGED threadVars

\* api.py:122-140 run to its end: the attempt do_request gives up on and
\* what it ends with there ("none": a decoded body), every earlier attempt
\* having raised a requests.RequestException
PipelineEnds(max_attempt_number) ==
    { e \in [kind : { do_request_raises(o, j) : o \in Outcomes, j \in BOOLEAN },
             calls : 1..max_attempt_number] :
         /\ \A n \in 1..(e.calls - 1) :
               /\ retry_if("RequestException")
               /\ ~retry_stops(n, max_attempt_number)
         /\ ~(retry_if(e.kind) /\ ~retry_stops(e.calls, max_attempt_number)) }

\* api.py:142-154 after the attempts: the tracker, whether a payload is
\* returned, and whether the observer's exception leaves _make_request;
\* raises1 and raises2 are what the observer does when notified from the
\* try block and from a handler
AfterAttempts(s, kind, t, raises1, raises2) ==
    IF kind = "none"
    THEN IF raises1
         THEN [state   |-> record_failure(record_success(s),
                                          FailureMessage("observer"), t),
               payload |-> FALSE,
               raised  |-> raises2,
               records |-> <<1, 1>>]
         ELSE [state   |-> record_success(s),
               payload |-> TRUE,
               raised  |-> FALSE,
               records |-> <<1, 0>>]
    ELSE [state   |-> record_failure(s, FailureMessage(kind), t),
          payload |-> FALSE,
          raised  |-> raises2,
          records |-> <<0, 1>>]

\* the locals and histories of a call that made no request
NoRequest ==
    /\ budget' = 0
    /\ http_calls' = 0
    /\ exc' = "none"
    /\ data' = None
    /\ raised' = FALSE
    /\ UNCHANGED <<state, cache, saved, histVars, observer_failed, armed_at, streak>>

\* the user pauses between two calls
PauseIdle == BetweenCalls /\ Pause

\* the locals and histories of a call that _load_cache's exception ends
LoadRaises ==
    /\ budget' = 0
    /\ http_calls' = 0
    /\ exc' = "none"
    /\ data' = None
    /\ raised' = TRUE
    /\ UNCHANGED <<state, cache, saved, ret, cached, histVars,
                   observer_failed, armed_at, streak>>

\* _make_request run to its end (api.py:116-154), p being the payload that
\* the provider answers if an attempt succeeds
RequestRuns(e, p, raises1, raises2) ==
    LET after == AfterAttempts(state, e.kind, now, raises1, raises2)
    IN  /\ budget' = stop_after_attempt(retry_attempts)
        /\ http_calls' = e.calls
        /\ exc' = IF e.kind = "none" /\ raises1 THEN "observer" ELSE e.kind
        /\ data' = IF after.payload THEN Some(p) ELSE None
        /\ raised' = after.raised
        /\ state' = after.state
        /\ only_transport' = (e.kind = "RequestException")
        /\ rl_at' = IF IsRateLimit(e.kind) THEN e.calls ELSE 0
        /\ n_success' = after.records[1]
        /\ n_failure' = after.records[2]
        /\ n_notify' = after.records[1] + after.records[2]
        /\ observer_failed' = ((e.kind = "none" /\ raises1) \/ after.raised)
        /\ streak' = IF after.payload
                     THEN 0
                     ELSE IF e.kind = "none" THEN 1 ELSE streak + 1
        /\ armed_at' = IF streak' = FailureThreshold
                       THEN Some(now)
                       ELSE armed_at

\* _make_request run to its end, then the save or the default list
\* (api.py:165-168 and api.py:178-185)
FetchAndSave(key, e, p, raises1, raises2) ==
    /\ RequestRuns(e, p, raises1, raises2)
    /\ IF raised'
       THEN UNCHANGED <<cache, saved, ret>>
       ELSE IF TruthyData(data')
       THEN /\ cache' = [cache EXCEPT ![key] = _save_cache(@, p, now, disk)]
            /\ saved' = [saved EXCEPT ![key] =
                             IF disk = "ok"
                             THEN Some([at |-> now, payload |-> p])
                             ELSE None]
            /\ ret' = p
       ELSE /\ UNCHANGED <<cache, saved>>
            /\ ret' = DefaultFor(key)

\* get_coin_list or get_supported_currencies called by the settings dialog
\* (settings_dialog.py:425-450) and run to its end (api.py:157-185): the
\* cache, else _make_request with its attempts, records and notifications,
\* then the save or the default list
CachedFetch ==
    /\ pc = "idle"
    /\ state.consecutive_failures < MaxCacheFailures
    /\ pc' = "returned"
    /\ \E key \in CacheKeys :
          LET loaded == _load_cache(cache[key], now, zone, disk)
          IN  /\ req' = key
              /\ IF _load_cache_raises(cache[key], now, zone, disk)
                 THEN LoadRaises
                 ELSE /\ cached' = loaded
                      /\ IF TruthyData(loaded)
                         THEN ret' = loaded[1] /\ NoRequest
                         ELSE IF make_request_skips(state, now)
                         THEN ret' = DefaultFor(key) /\ NoRequest
                         ELSE \E e \in PipelineEnds(
                                          stop_after_attempt(retry_attempts)) :
                                IF e.kind = "none"
                                THEN \E p \in Payloads(key) :
                                       \/ FetchAndSave(key, e, p, FALSE, FALSE)
                                       \/ \E raises2 \in BOOLEAN :
                                            FetchAndSave(key, e, p, TRUE,
                                                         raises2)
                                ELSE \E raises2 \in BOOLEAN :
                                       FetchAndSave(key, e, {}, FALSE, raises2)
    /\ UNCHANGED <<retry_attempts, envVars, symbols, symbol_map, coin_list>>
    /\ UNCHANGED threadVars

\* the program on a machine whose time zone is in either half of the year
InitCache ==
    /\ InitProgram
    /\ retry_attempts = MaxAttempts
    /\ zone \in {StandardTime, SummerTime}
    /\ disk = "ok"

NextCache ==
    \/ CacheTick
    \/ ZoneChange
    \/ DiskChange
    \/ FileDamaged
    \/ PauseIdle
    \/ CachedFetch
    \/ Return

SpecCache == InitCache /\ [][NextCache]_vars

(* ------------------------ get_prices on its own ------------------------ *)

\* the symbols asked for here: one in upper case, one that two coins share,
\* a second name of a coin, and one no coin has
AskedSymbols == {"BTC", "eth", "xbt", "doge"}

\* the non-empty symbol lists asked for
AskedLists == UNION { [1..n -> AskedSymbols] : n \in 1..MaxSymbols }

\* what get_coin_list may return: the default list, a list in which two
\* coins have the symbol btc, and a list in which one id comes under two
\* symbols
CoinLists ==
    { DefaultCoinList,
      << [id |-> "bitcoin", symbol |-> "BTC"],
         [id |-> "batcat", symbol |-> "btc"],
         [id |-> "ethereum", symbol |-> "eth"] >>,
      << [id |-> "bitcoin", symbol |-> "btc"],
         [id |-> "bitcoin", symbol |-> "xbt"],
         [id |-> "ethereum", symbol |-> "eth"] >> }

CoinIds == {"bitcoin", "ethereum", "batcat", "tether"}

PriceOf(i) ==
    CASE i = "bitcoin"  -> 5
      [] i = "ethereum" -> 7
      [] i = "batcat"   -> 3
      [] OTHER          -> 1

\* what /simple/price may answer here: prices of any of the coins in usd or
\* in eur, and a price that is null
PriceAnswers ==
    { [i \in ids |-> [c \in {cur} |-> Number(PriceOf(i))]] :
          ids \in SUBSET CoinIds, cur \in {"usd", "eur"} }
    \cup { [i \in {"bitcoin", "ethereum"} |->
               [c \in {"usd"} |-> IF i = "bitcoin"
                                  THEN JsonNull
                                  ELSE Number(PriceOf(i))]] }

\* get_prices entered with a list of symbols, past its two guards
\* (api.py:187-203)
AskPrices ==
    /\ pc = "idle"
    /\ state.consecutive_failures < MaxCacheFailures
    /\ \E syms \in AskedLists :
          /\ ~get_prices_returns_early(syms, state, now)
          /\ symbols' = syms
    /\ pc' = "get_coin_list"
    /\ ret' = EmptyMap
    /\ UNCHANGED <<apiVars, envVars, req, budget, http_calls, exc, data,
                   raised, symbol_map, coin_list, cached, histVars,
                   observer_failed, armed_at, streak>>
    /\ UNCHANGED threadVars

\* get_coin_list has returned a coin list, and get_prices resolves the
\* symbols (api.py:205-225)
CoinListReturned ==
    /\ pc = "get_coin_list"
    /\ \E coins \in CoinLists : AfterCoinList(coins)
    /\ UNCHANGED <<apiVars, envVars, symbols, budget, http_calls, exc, data,
                   raised, ret, cached, histVars, observer_failed, armed_at,
                   streak>>
    /\ UNCHANGED threadVars

\* the price request run to its end (api.py:227 and api.py:116-154)
PriceRequest ==
    /\ pc = "make_request"
    /\ req = "price"
    /\ pc' = "make_request_ret"
    /\ IF make_request_skips(state, now)
       THEN NoRequest
       ELSE /\ \E e \in PipelineEnds(stop_after_attempt(retry_attempts)) :
                  IF e.kind = "none"
                  THEN \E p \in PriceAnswers :
                          \/ RequestRuns(e, p, FALSE, FALSE)
                          \/ \E raises2 \in BOOLEAN :
                                RequestRuns(e, p, TRUE, raises2)
                  ELSE \E raises2 \in BOOLEAN :
                          RequestRuns(e, {}, FALSE, raises2)
            /\ UNCHANGED <<cache, saved>>
    /\ UNCHANGED <<retry_attempts, envVars, symbols, req, ret, symbol_map,
                   coin_list, cached>>
    /\ UNCHANGED threadVars

InitResolve ==
    /\ InitProgram
    /\ retry_attempts = MaxAttempts
    /\ zone = StandardTime
    /\ disk = "ok"

NextResolve ==
    \/ AskPrices
    \/ CoinListReturned
    \/ PriceRequest
    \/ MakeRequestReturn
    \/ Return

SpecResolve == InitResolve /\ [][NextResolve]_vars

(* ------------------------ the scheduler of main.py ---------------------- *)

\* _update_price without its isRunning() test
update_price_ignores_running(s, t, thread) == ~should_skip(s, t)

\* main.py:122-127: is_paused() is should_skip() (api.py:254-256), and
\* isRunning() is true from start() until run() has returned
update_price_starts(s, t, thread) ==
    IF should_skip(s, t)
    THEN FALSE
    ELSE IF thread = "running"
         THEN FALSE
         ELSE TRUE

\* main.py:120-138: _update_price, run on the UI thread
UpdatePrice ==
    IF update_price_starts(state, now, fetch_thread)
    THEN /\ fetch_thread' = "running"
         /\ runs' = runs + 1
    ELSE UNCHANGED <<fetch_thread, runs>>

\* what a slot of the UI thread leaves alone
SlotFrame ==
    UNCHANGED <<cache, saved, zone, disk, callVars, histVars, observer_failed,
                fetch_pos, raceVars>>

\* main.py:65-67: the price timer fires
TimerFires ==
    /\ UpdatePrice
    /\ fetch_thread' # fetch_thread
    /\ UNCHANGED <<state, retry_attempts, now, ticks, armed_at, streak,
                   singleshots>>
    /\ SlotFrame

\* main.py:75, 105, 118: a QTimer.singleShot(100, self._update_price) fires
SingleShotFires ==
    /\ singleshots > 0
    /\ singleshots' = singleshots - 1
    /\ UpdatePrice
    /\ UNCHANGED <<state, retry_attempts, now, ticks, armed_at, streak>>
    /\ SlotFrame

\* main.py:241-252 and main.py:267-272: the settings dialog changed or
\* saved the settings: the retry setting is passed on and _update_price
\* is called
SettingsChanged ==
    /\ \E attempts \in AttemptChoices : retry_attempts' = attempts
    /\ UpdatePrice
    /\ retry_attempts' # retry_attempts \/ fetch_thread' # fetch_thread
    /\ UNCHANGED <<state, now, ticks, armed_at, streak, singleshots>>
    /\ SlotFrame

\* main.py:100-101: the tray's toggle, to paused
PauseClicked ==
    /\ ~state.paused
    /\ state' = [state EXCEPT !.paused = TRUE]
    /\ UNCHANGED <<retry_attempts, now, ticks, armed_at, streak, schedVars>>
    /\ SlotFrame

\* main.py:102-105: the tray's toggle, to resumed
ResumeClicked ==
    /\ singleshots < MaxSingleShots
    /\ state' = resume(state)
    /\ armed_at' = None
    /\ streak' = 0
    /\ singleshots' = singleshots + 1
    /\ UNCHANGED <<retry_attempts, now, ticks, fetch_thread, runs>>
    /\ SlotFrame

\* main.py:115-116: whether _check_auto_resume calls resume()
check_auto_resume_resumes(s, t) ==
    LET remaining == get_auto_resume_remaining(s, t)
    IN  remaining # None /\ remaining[1] <= 0

\* main.py:69-72 and main.py:113-118: the one-minute timer fires and
\* _check_auto_resume finds the time to resume
CheckAutoResume ==
    /\ singleshots < MaxSingleShots
    /\ check_auto_resume_resumes(state, now)
    /\ state' = resume(state)
    /\ armed_at' = None
    /\ streak' = 0
    /\ singleshots' = singleshots + 1
    /\ UNCHANGED <<retry_attempts, now, ticks, fetch_thread, runs>>
    /\ SlotFrame

\* time passes
SchedTick ==
    /\ ticks < MaxSchedTicks
    /\ \E d \in TickSteps : now' = now + d
    /\ ticks' = ticks + 1
    /\ UNCHANGED <<apiVars, zone, disk, callVars, histVars, observer_failed,
                   armed_at, streak, threadVars>>

\* settings.py:32: the symbol of the main price
crypto_symbol == "BTC"

\* settings.py:35: what secondary_cryptos may hold
SecondaryChoices == { <<>>, <<"unknownsym">> }

\* price_worker.py:75-77 and price_worker.py:31-43: the thread runs fetch,
\* which returns at once if the client is paused
WorkerFetch ==
    /\ fetch_thread = "running"
    /\ fetch_pos = "none"
    /\ pc = "idle"
    /\ IF should_skip(state, now)
       THEN /\ fetch_thread' = "finished"
            /\ runs' = runs - 1
            /\ UNCHANGED <<fetch_pos, pc>>
       ELSE /\ fetch_pos' = "main"
            /\ pc' = "get_prices"
            /\ UNCHANGED <<fetch_thread, runs>>
    /\ UNCHANGED <<apiVars, envVars, symbols, req, budget, http_calls, exc,
                   data, raised, ret, symbol_map, coin_list, cached, histVars,
                   observer_failed, armed_at, streak, singleshots, raceVars>>

\* price_worker.py:47 with api.py:239-242, and price_worker.py:58:
\* get_prices is entered (api.py:198-202)
WorkerGetPrices ==
    /\ pc = "get_prices"
    /\ \E syms \in IF fetch_pos = "main"
                    THEN { <<crypto_symbol>> }
                    ELSE SecondaryChoices \ { <<>> } :
          /\ symbols' = syms
          /\ pc' = IF get_prices_returns_early(syms, state, now)
                   THEN "returned"
                   ELSE "get_coin_list"
    /\ ret' = EmptyMap
    /\ UNCHANGED <<apiVars, envVars, req, budget, http_calls, exc, data,
                   raised, symbol_map, coin_list, cached, histVars,
                   observer_failed, armed_at, streak, threadVars>>

\* the locals of a get_prices call that is over
CallOver ==
    /\ symbols' = <<>>
    /\ req' = "none"
    /\ budget' = 0
    /\ http_calls' = 0
    /\ exc' = "none"
    /\ data' = None
    /\ raised' = FALSE
    /\ ret' = EmptyMap
    /\ symbol_map' = EmptyMap
    /\ coin_list' = None
    /\ cached' = None
    /\ only_transport' = TRUE
    /\ rl_at' = 0
    /\ n_success' = 0
    /\ n_failure' = 0
    /\ n_notify' = 0
    /\ observer_failed' = FALSE

\* price_worker.py:48-65: get_prices is back in fetch; after the main
\* price the secondary prices are fetched if there are any, unless an
\* exception took fetch to its handler; then run() returns
WorkerNext ==
    /\ pc = "returned"
    /\ fetch_pos # "none"
    /\ CallOver
    /\ \E secondary \in SecondaryChoices :
          IF fetch_pos = "main" /\ ~raised /\ secondary # <<>>
          THEN /\ fetch_pos' = "secondary"
               /\ pc' = "get_prices"
               /\ UNCHANGED <<fetch_thread, runs>>
          ELSE /\ fetch_pos' = "none"
               /\ pc' = "idle"
               /\ fetch_thread' = "finished"
               /\ runs' = runs - 1
    /\ UNCHANGED <<apiVars, envVars, armed_at, streak, singleshots, raceVars>>

\* after CryptoTicker.__init__ (main.py:22-75): both timers run and the
\* first fetch is requested
InitSched ==
    /\ state = NewAPIState
    /\ retry_attempts \in AttemptChoices
    /\ cache = [k \in CacheKeys |-> None]
    /\ saved = [k \in CacheKeys |-> None]
    /\ now = 0
    /\ ticks = 0
    /\ zone = StandardTime
    /\ disk = "ok"
    /\ pc = "idle"
    /\ symbols = <<>>
    /\ req = "none"
    /\ budget = 0
    /\ http_calls = 0
    /\ exc = "none"
    /\ data = None
    /\ raised = FALSE
    /\ ret = EmptyMap
    /\ symbol_map = EmptyMap
    /\ coin_list = None
    /\ cached = None
    /\ only_transport = TRUE
    /\ rl_at = 0
    /\ n_success = 0
    /\ n_failure = 0
    /\ n_notify = 0
    /\ observer_failed = FALSE
    /\ armed_at = None
    /\ streak = 0
    /\ fetch_thread = "none"
    /\ runs = 0
    /\ singleshots = 1
    /\ fetch_pos = "none"
    /\ ui_pc = "idle"
    /\ rec_pc = "idle"
    /\ reg = 0

NextSched ==
    \/ TimerFires
    \/ SingleShotFires
    \/ SettingsChanged
    \/ CheckAutoResume
    \/ PauseClicked
    \/ ResumeClicked
    \/ SchedTick
    \/ WorkerFetch
    \/ WorkerGetPrices
    \/ GetCoinList
    \/ MakeRequest
    \/ DoRequest
    \/ TrySuccess
    \/ Except
    \/ MakeRequestReturn
    \/ WorkerNext

SpecSched == InitSched /\ [][NextSched]_vars

(* ------------- the tracker's assignments, taken one by one ------------- *)

\* Two threads write the one APIState object, and no lock guards it: the
\* worker thread inside _make_request (record_success, record_failure,
\* api.py:142-154) and the UI thread in the slots of main.py:98-118 (pause,
\* resume).  CPython switches threads between two bytecodes, so each
\* attribute read and each attribute assignment is a step of its own.

\* main.py:137-138: a fetch thread is started
FetchStarts ==
    /\ fetch_thread # "running"
    /\ fetch_thread' = "running"
    /\ runs' = runs + 1
    /\ fetch_pos' = "main"
    /\ UNCHANGED <<apiVars, envVars, callVars, histVars, observer_failed,
                   armed_at, streak, singleshots, raceVars>>

\* price_worker.py:75-77: run() returns
FetchEnds ==
    /\ fetch_thread = "running"
    /\ rec_pc = "idle"
    /\ fetch_thread' = "finished"
    /\ runs' = runs - 1
    /\ fetch_pos' = "none"
    /\ UNCHANGED <<apiVars, envVars, callVars, histVars, observer_failed,
                   armed_at, streak, singleshots, raceVars>>

\* what a step of the tracker leaves alone
TrackerFrame ==
    UNCHANGED <<retry_attempts, cache, saved, envVars, callVars, histVars,
                observer_failed, armed_at, streak, schedVars>>

\* api.py:36, first half: self.consecutive_failures is read
RecordFailureReads ==
    /\ fetch_pos # "none"
    /\ rec_pc = "idle"
    /\ state.consecutive_failures < MaxRaceFailures
    /\ reg' = state.consecutive_failures
    /\ rec_pc' = "failure_add"
    /\ UNCHANGED <<state, ui_pc>>
    /\ TrackerFrame

\* api.py:36, second half: the sum is assigned
RecordFailureAdds ==
    /\ rec_pc = "failure_add"
    /\ state' = [state EXCEPT !.consecutive_failures = reg + 1]
    /\ rec_pc' = "failure_error"
    /\ UNCHANGED <<reg, ui_pc>>
    /\ TrackerFrame

\* api.py:37
RecordFailureError ==
    /\ rec_pc = "failure_error"
    /\ state' = [state EXCEPT !.last_error = FailureMessage("RequestException")]
    /\ rec_pc' = "failure_test"
    /\ UNCHANGED <<reg, ui_pc>>
    /\ TrackerFrame

\* api.py:38
RecordFailureTests ==
    /\ rec_pc = "failure_test"
    /\ rec_pc' = IF state.consecutive_failures >= FailureThreshold
                 THEN "failure_arm"
                 ELSE "idle"
    /\ UNCHANGED <<state, reg, ui_pc>>
    /\ TrackerFrame

\* api.py:40
RecordFailureArms ==
    /\ rec_pc = "failure_arm"
    /\ state' = [state EXCEPT !.auto_pause_until = Some(now + AutoPauseSeconds)]
    /\ rec_pc' = "idle"
    /\ UNCHANGED <<reg, ui_pc>>
    /\ TrackerFrame

\* api.py:44
RecordSuccessCounter ==
    /\ fetch_pos # "none"
    /\ rec_pc = "idle"
    /\ state' = [state EXCEPT !.consecutive_failures = 0]
    /\ rec_pc' = "success_error"
    /\ UNCHANGED <<reg, ui_pc>>
    /\ TrackerFrame

\* api.py:45
RecordSuccessError ==
    /\ rec_pc = "success_error"
    /\ state' = [state EXCEPT !.last_error = None]
    /\ rec_pc' = "idle"
    /\ UNCHANGED <<reg, ui_pc>>
    /\ TrackerFrame

\* api.py:246, from main.py:101: pause() is one assignment
PauseAssigns ==
    /\ ui_pc = "idle"
    /\ ~state.paused
    /\ state' = [state EXCEPT !.paused = TRUE]
    /\ UNCHANGED <<reg, ui_pc, rec_pc>>
    /\ TrackerFrame

\* api.py:49, from main.py:103 or main.py:117
ResumePaused ==
    /\ ui_pc = "idle"
    /\ state' = [state EXCEPT !.paused = FALSE]
    /\ ui_pc' = "resume_until"
    /\ UNCHANGED <<reg, rec_pc>>
    /\ TrackerFrame

\* api.py:50
ResumeUntil ==
    /\ ui_pc = "resume_until"
    /\ state' = [state EXCEPT !.auto_pause_until = None]
    /\ ui_pc' = "resume_counter"
    /\ UNCHANGED <<reg, rec_pc>>
    /\ TrackerFrame

\* api.py:51
ResumeCounter ==
    /\ ui_pc = "resume_counter"
    /\ state' = [state EXCEPT !.consecutive_failures = 0]
    /\ ui_pc' = "idle"
    /\ UNCHANGED <<reg, rec_pc>>
    /\ TrackerFrame

InitRace ==
    /\ InitProgram
    /\ zone = StandardTime
    /\ disk = "ok"

NextRace ==
    \/ FetchStarts
    \/ FetchEnds
    \/ RecordFailureReads
    \/ RecordFailureAdds
    \/ RecordFailureError
    \/ RecordFailureTests
    \/ RecordFailureArms
    \/ RecordSuccessCounter
    \/ RecordSuccessError
    \/ PauseAssigns
    \/ ResumePaused
    \/ ResumeUntil
    \/ ResumeCounter

SpecRace == InitRace /\ [][NextRace]_vars

(* ------------------------------ the claims ----------------------------- *)

ShouldSkip == should_skip(state, now)

\* C1: the 10th record_failure in a row (no record_success or resume() in
\* between) makes should_skip() true; from then on should_skip() is true in
\* every state until resume() is called or 30 minutes have passed since that
\* failure; a failure that is not yet the 10th in a row leaves a false
\* should_skip() false.
C1_AutoPauseAfterTenFailures ==
    /\ [][Except =>
            /\ streak' = FailureThreshold => should_skip(state', now')
            /\ (streak' < FailureThreshold /\ ~ShouldSkip)
                  => ~should_skip(state', now')]_vars
    /\ [](armed_at # None /\ now < armed_at[1] + AutoPauseSeconds => ShouldSkip)

\* C1 witness: the window was armed by the 10th failure, time has passed,
\* nobody paused, and calls are still being skipped
C1_Witness ==
    /\ armed_at # None
    /\ streak = FailureThreshold
    /\ now = armed_at[1] + AutoPauseSeconds - 1
    /\ ~state.paused
    /\ ShouldSkip

\* C2 as stated: a record_failure called while auto_pause_until is already
\* set leaves auto_pause_until unchanged (no re-arming, no extension).
C2_NeverRearmed ==
    [][Except /\ state.auto_pause_until # None
          => state'.auto_pause_until = state.auto_pause_until]_vars

\* C2 amended: record_failure sets auto_pause_until to now + 30 minutes on
\* the 10th failure in a row and again on every later one, also when
\* auto_pause_until is already set; a failure below the 10th in a row leaves
\* auto_pause_until unchanged.
C2_RearmedOnEveryFailureFromTenth ==
    [][Except =>
          state'.auto_pause_until =
              IF streak' >= FailureThreshold
              THEN Some(now + AutoPauseSeconds)
              ELSE state.auto_pause_until]_vars

\* C2 witness: the 11th failure in a row, recorded after the first window
\* had elapsed without resume(), has just moved the window
C2_Witness ==
    /\ pc = "make_request_ret"
    /\ n_failure = 1
    /\ streak = FailureThreshold + 1
    /\ armed_at # None
    /\ now >= armed_at[1] + AutoPauseSeconds
    /\ state.auto_pause_until = Some(now + AutoPauseSeconds)

\* C3: record_success() sets consecutive_failures to 0 and last_error to
\* none and leaves paused and auto_pause_until as they were, so should_skip()
\* has the same value before and after it.
C3_RecordSuccessFrame ==
    [][TrySuccess =>
          /\ state'.consecutive_failures = 0
          /\ state'.last_error = None
          /\ state'.paused = state.paused
          /\ state'.auto_pause_until = state.auto_pause_until
          /\ should_skip(state', now') = ShouldSkip]_vars

\* C3 witness: record_success has run in a state that was manually paused
\* with a window armed, and both are still there
C3_Witness ==
    /\ pc = "make_request_ret"
    /\ n_success = 1
    /\ n_failure = 0
    /\ state.paused
    /\ state.auto_pause_until # None
    /\ state.consecutive_failures = 0

\* C4: resume() leaves paused false, auto_pause_until none and
\* consecutive_failures 0, so should_skip() is false right after it.
C4_ResumeResets ==
    [][Resume =>
          /\ state'.paused = FALSE
          /\ state'.auto_pause_until = None
          /\ state'.consecutive_failures = 0
          /\ ~should_skip(state', now')]_vars

\* C4 witness: only resume() leaves a recorded error beside a counter of 0
\* (record_success clears last_error, record_failure counts at least 1)
C4_Witness ==
    /\ state.last_error # None
    /\ state.consecutive_failures = 0
    /\ ~state.paused
    /\ state.auto_pause_until = None
    /\ ~ShouldSkip

\* C5: should_skip() is true exactly when paused is true or auto_pause_until
\* is set and later than the current time.
C5_ShouldSkipIff ==
    ShouldSkip <=>
        \/ state.paused
        \/ state.auto_pause_until # None /\ state.auto_pause_until[1] > now

\* C5 witness: not paused, and the current time is exactly the end of the
\* armed window
C5_Witness ==
    /\ ~state.paused
    /\ state.auto_pause_until = Some(now)

\* C6: get_prices with a non-empty symbol list, entered while should_skip()
\* is true, returns the empty map at once: no HTTP attempt, no FailureState
\* field changed, no observer notification.
C6_SkippedGetPrices ==
    [][GetPrices /\ symbols' # <<>> /\ ShouldSkip =>
          /\ pc' = "returned"
          /\ ret' = EmptyMap
          /\ ~raised'
          /\ state' = state
          /\ http_calls' = 0
          /\ n_notify' = 0
          /\ req' = "none"]_vars

\* C6 witness: a skipped get_prices call with symbols has returned
C6_Witness ==
    /\ pc = "returned"
    /\ symbols # <<>>
    /\ req = "none"
    /\ ShouldSkip
    /\ state.auto_pause_until # None
    /\ ret = EmptyMap

\* C7: once an attempt got a rate-limit response (HTTP 429 or a body with
\* error_code 429) the call makes no further attempt whatever the budget,
\* records exactly one failure, whose message starts "Rate limited: ", and
\* hands no payload to its caller; rate limited on attempt 1, it has made
\* exactly 1 network call.
C7_RateLimitAborts ==
    rl_at > 0 =>
        /\ pc # "do_request"
        /\ http_calls = rl_at
        /\ pc = "make_request_ret" =>
              /\ n_failure = 1
              /\ n_success = 0
              /\ Len(state.last_error) = 2
              /\ state.last_error[1] = "Rate limited: "
              /\ data = None

\* C7 witness: rate limited on attempt 1 of a budget of 3
C7_Witness ==
    /\ pc = "make_request_ret"
    /\ rl_at = 1
    /\ budget = 3
    /\ http_calls = 1

\* C8: a call in which every attempt failed at transport level has made
\* exactly as many network calls as its budget and has recorded exactly one
\* failure: the counter grew by 1, last_error is set, and should_skip() stays
\* false while the counter is below 10.
C8_TransportFailureExhaustsBudget ==
    /\ [](pc = "make_request_ret" /\ only_transport /\ http_calls > 0 =>
            /\ http_calls = budget
            /\ n_failure = 1
            /\ n_success = 0
            /\ state.last_error # None)
    /\ [](pc = "except" /\ only_transport => http_calls = budget)
    /\ [][Except /\ only_transport =>
            /\ state'.consecutive_failures = state.consecutive_failures + 1
            /\ (state'.consecutive_failures < FailureThreshold /\ ~ShouldSkip)
                  => ~should_skip(state', now')]_vars

\* C8 witness: three transport failures on a budget of 3, one failure
\* recorded, calls not skipped
C8_Witness ==
    /\ pc = "make_request_ret"
    /\ only_transport
    /\ budget = 3
    /\ http_calls = 3
    /\ n_failure = 1
    /\ state.consecutive_failures = 1
    /\ ~ShouldSkip

\* C9: a call of _make_request that has made its attempts and concluded has
\* called exactly one of record_success / record_failure and has notified
\* the observer exactly once.
C9_OneRecordOneNotification ==
    pc = "make_request_ret" /\ http_calls > 0 =>
        /\ n_success + n_failure = 1
        /\ n_notify = 1

\* C10: _make_request never raises to its caller, whatever the attempts and
\* the observer do, and after a failed request it returns no payload with
\* last_error holding the failure message.
C10_NeverRaises ==
    pc = "make_request_ret" =>
        /\ ~raised
        /\ (http_calls > 0 /\ n_success = 0) =>
              /\ data = None
              /\ state.last_error = FailureMessage(exc)

\* C11: what the observer does leaves the tracker as the operation set it:
\* once the request of a pipeline call has succeeded, the call concludes with
\* consecutive_failures 0 and last_error none, whether or not the observer
\* raised.
C11_ObserverFailureHarmless ==
    pc = "make_request_ret" /\ n_success > 0 =>
        /\ state.consecutive_failures = 0
        /\ state.last_error = None

\* C12: get_prices never lets an exception cross to its caller: whatever the
\* attempts end with and whatever body the provider answers, a call in which
\* no observer raised returns a price map.
C12_GetPricesNeverRaises ==
    pc = "returned" /\ ~observer_failed => ~raised

\* C13: get_coin_list never returns an empty list: whatever it hands to
\* get_prices is non-empty, and when neither the cache nor the network gave
\* it a list (the request failed, was answered with nothing, or was skipped
\* because should_skip() was true) it is the default list, which holds
\* bitcoin/btc and ethereum/eth.
C13_CoinListNeverEmpty ==
    /\ [](coin_list # None => coin_list[1] # <<>>)
    /\ [][(/\ MakeRequestReturn
           /\ req = "coin_list"
           /\ ~raised
           /\ (data = None \/ data[1] = <<>>))
              => /\ coin_list' = Some(DefaultCoinList)
                 /\ \E k \in DOMAIN coin_list'[1] :
                       /\ coin_list'[1][k].id = "bitcoin"
                       /\ coin_list'[1][k].symbol = "btc"
                 /\ \E k \in DOMAIN coin_list'[1] :
                       /\ coin_list'[1][k].id = "ethereum"
                       /\ coin_list'[1][k].symbol = "eth"]_vars

\* C13 witness: the coin-list request failed on a sound, empty cache and
\* get_prices goes on with the default list
C13_Witness ==
    /\ pc = "make_request"
    /\ req = "price"
    /\ cache["coin_list"] = None
    /\ n_failure = 1
    /\ coin_list = Some(DefaultCoinList)

\* how long ago, by the clock, the file under key was written
EntryAge(key) == now - cache[key][1].mtime

\* a file that was written to its end is under key
WholeEntry(key) ==
    /\ cache[key] # None
    /\ cache[key][1].text.complete
    /\ cache[key][1].text.utf8

\* C14: get_coin_list is cache-first: with a cache entry for coin_list
\* younger than 24 hours (written whole, on a directory that can be read) it
\* returns that payload with no HTTP attempt, no notification and no change
\* of the tracker; and the payload of a successful fetch is in the cache
\* afterwards, dated now (on a sound directory), so that the next call within
\* 24 hours is such a call.
C14_CacheFirst ==
    [][CachedFetch /\ req' = "coin_list" =>
          /\ (/\ WholeEntry("coin_list")
              /\ disk # "unreadable"
              /\ EntryAge("coin_list") < CACHE_DURATION)
                => /\ ret' = cache["coin_list"][1].text.doc
                   /\ http_calls' = 0
                   /\ n_notify' = 0
                   /\ state' = state
          /\ (/\ n_success' = 1
              /\ n_failure' = 0
              /\ data' # None
              /\ data' # Some(<<>>)
              /\ disk = "ok")
                => cache'["coin_list"] =
                       Some([mtime |-> now, text |-> json_dump(data'[1])])]_vars

\* C19: for every key, a load made less than 24 hours after the last save
\* under that key, that save having written its payload whole and the
\* directory being readable, returns exactly the payload of that save (the
\* last one, whatever was saved under the key before).
C19_SaveThenLoad ==
    [][(/\ CachedFetch
        /\ saved[req'] # None
        /\ now - saved[req'][1].at < CACHE_DURATION
        /\ disk # "unreadable")
          => cached' = Some(saved[req'][1].payload)]_vars

\* C20: a load never returns stale data: for an entry written 24 hours ago
\* or more the load reports a miss, and the call goes to the network or
\* falls back to the default list.
C20_NeverStale ==
    [][(/\ CachedFetch
        /\ cache[req'] # None
        /\ EntryAge(req') >= CACHE_DURATION)
          => /\ cached' = None
             /\ (http_calls' > 0 \/ ret' = DefaultFor(req'))]_vars

\* the lower-cased symbols of a coin list
CoinSymbols(coins) == { Lower(coins[j].symbol) : j \in DOMAIN coins }

C16_RoundTrip ==
    pc = "returned" /\ req = "price" /\ ~raised /\ data # None =>
        \A n \in DOMAIN symbols :
            LET s     == Lower(symbols[n])
                index == SymbolToId(coin_list[1])
            IN  (/\ s \in DOMAIN index
                 /\ index[s] \in DOMAIN data[1]
                 /\ vs_currency \in DOMAIN data[1][index[s]]
                 /\ data[1][index[s]][vs_currency].type = "number")
                => /\ s \in DOMAIN ret
                   /\ ret[s] = data[1][index[s]][vs_currency].value

\* C17: get_prices with an empty symbol list returns the empty map at once,
\* whatever the tracker state: no HTTP attempt, no read of the coin list, no
\* record, no notification, FailureState and the cache as they were
C17_EmptyListReturnsAtOnce ==
    [][GetPrices /\ symbols' = <<>> =>
          /\ pc' = "returned"
          /\ ret' = EmptyMap
          /\ raised' = FALSE
          /\ state' = state
          /\ cache' = cache
          /\ coin_list' = None
          /\ cached' = None
          /\ req' = "none"
          /\ http_calls' = 0
          /\ n_success' = 0 /\ n_failure' = 0 /\ n_notify' = 0]_vars

\* C17 happens: the empty list was asked for with failures on record and no
\* pause in force, and the call has returned
C17_Witness ==
    /\ pc = "returned"
    /\ symbols = <<>>
    /\ state.consecutive_failures > 0
    /\ ~should_skip(state, now)
    /\ ret = EmptyMap

\* C18: the price request of a call starts only once get_coin_list has
\* returned its list, from the cache or after the coin-list request is back
\* in get_coin_list with its attempts and its record behind it; no attempt
\* of the price request precedes the list, no coin-list step follows the
\* price request in the same call, and a price request is made only if some
\* requested symbol resolved
C18_ResolutionBeforePrices ==
    /\ [](req = "price" =>
             /\ coin_list # None
             /\ \E n \in DOMAIN symbols :
                   Lower(symbols[n]) \in CoinSymbols(coin_list[1]))
    /\ [][req # "price" /\ req' = "price" =>
             /\ pc' = "make_request"
             /\ coin_list = None /\ coin_list' # None
             /\ \/ pc = "get_coin_list" /\ TruthyData(cached')
                \/ /\ pc = "make_request_ret" /\ req = "coin_list"
                   /\ http_calls > 0 => n_success + n_failure >= 1
                   /\ n_notify = n_success + n_failure]_vars
    /\ [][req = "price" => req' \in {"price", "none"}]_vars
    /\ [][DoRequest /\ req = "price" => coin_list # None]_vars

\* C18 happens: the coin list was fetched and saved in this call, and the
\* first attempt of the price request is about to start
C18_Witness ==
    /\ pc = "do_request"
    /\ req = "price"
    /\ http_calls = 0
    /\ cached = None
    /\ cache["coin_list"] # None
    /\ coin_list # None

\* a stored entry young enough to be read that cannot be read or decoded
BadEntry(key) ==
    /\ cache[key] # None
    /\ _is_cache_valid(cache[key], now, zone)
    /\ \/ disk = "unreadable"
       \/ ~cache[key][1].text.complete
       \/ ~cache[key][1].text.utf8

\* C21: a cache failure stays inside the cache.  In a call of a cached
\* list, no exception reaches the caller unless the observer raised; an
\* entry that cannot be read or decoded is a miss, followed by the network
\* fetch unless calls are being skipped; a payload fetched while the save
\* fails is still returned, with the success recorded; and a call that made
\* no HTTP attempt leaves FailureState as it was
C21_CacheFailureAbsorbed ==
    [][CachedFetch =>
          /\ raised' => observer_failed'
          /\ BadEntry(req') =>
                /\ cached' = None
                /\ http_calls' > 0 \/ make_request_skips(state, now)
          /\ (/\ disk \in {"readonly", "full"}
              /\ ~raised'
              /\ TruthyData(data'))
                => /\ ret' = data'[1]
                   /\ state' = record_success(state)
          /\ http_calls' = 0 => state' = state]_vars

\* C22: a failed attempt that is not a rate limit is retried like a
\* transport failure: every attempt counts, do_request gives up on such a
\* failure only when the attempt budget is used up, and the handler then
\* records exactly one failure
C22_OtherFailuresRetried ==
    /\ [][DoRequest => http_calls' = http_calls + 1]_vars
    /\ [][DoRequest /\ pc' = "except" /\ ~IsRateLimit(exc') =>
             retry_stops(http_calls', budget)]_vars
    /\ [][Except /\ ~IsRateLimit(exc) /\ exc # "observer" =>
             /\ http_calls = budget
             /\ n_failure' = 1
             /\ state'.consecutive_failures =
                    state.consecutive_failures + 1]_vars

\* the caller thread is inside the attempts of a _make_request call
InFlight == pc \in {"do_request", "try_success", "except"}

\* C23: update_retry_settings changes no FailureState field and nothing of
\* a call in flight; a _make_request call that starts takes the setting of
\* that moment as its budget, keeps it to its end whatever the setting
\* becomes, and never makes more attempts than that budget
C23_RetrySettingsNextCall ==
    /\ [][UpdateRetrySettings =>
             /\ state' = state
             /\ budget' = budget
             /\ http_calls' = http_calls
             /\ pc' = pc]_vars
    /\ [][MakeRequest /\ pc' = "do_request" =>
             budget' = retry_attempts]_vars
    /\ [][InFlight => budget' = budget]_vars
    /\ [](InFlight \/ pc = "make_request_ret" => http_calls <= budget)

\* C23 happens: the setting went from the largest budget to one attempt
\* while a retry sequence was in flight, and the sequence is about to make
\* its second attempt
C23_Witness ==
    /\ pc = "do_request"
    /\ http_calls = 1
    /\ budget = MaxAttempts
    /\ retry_attempts = 1

\* the auto-pause window is what makes should_skip() true, or would be
\* without the user's pause (api.py:30)
WindowSkips ==
    Truthy(state.auto_pause_until) /\ now < state.auto_pause_until[1]

\* C24: get_auto_resume_remaining() is None exactly when auto_pause_until
\* is not set; otherwise it is the whole seconds left to auto_pause_until,
\* never below 0; and it is 0 only when the window no longer makes
\* should_skip() true
C24_RemainingSeconds ==
    LET r == get_auto_resume_remaining(state, now)
    IN  /\ r = None <=> state.auto_pause_until = None
        /\ r # None =>
              /\ r[1] >= 0
              /\ WindowSkips =>
                    /\ r[1] * UnitsPerSecond <= state.auto_pause_until[1] - now
                    /\ state.auto_pause_until[1] - now
                           < (r[1] + 1) * UnitsPerSecond
        /\ r = Some(0) => ~WindowSkips

\* C27: a _make_request call makes at most as many attempts as its budget,
\* at least one unless it is skipped, none after a success or a rate limit,
\* and is entered once for the coin list and once for the prices at most in
\* a get_prices call; and a get_prices call that has begun comes to its end
C27_PipelineTerminates ==
    /\ [](InFlight \/ pc = "make_request_ret" => http_calls <= budget)
    /\ [](pc = "make_request_ret" /\ budget > 0 => http_calls >= 1)
    /\ [](pc = "do_request" => data = None /\ rl_at = 0 /\ exc = "none")
    /\ [][MakeRequest => req \in {"coin_list", "price"}]_vars
    /\ [][pc # "make_request" /\ pc' = "make_request" =>
             \/ req = "none" /\ req' = "coin_list"
             \/ req \in {"none", "coin_list"} /\ req' = "price"]_vars
    /\ [][pc = "make_request" => pc' # "make_request" \/ UNCHANGED callVars]_vars
    /\ (pc \notin {"idle", "returned"}) ~> (pc = "returned")

\* C27 happens: a get_prices call has returned after a price request that
\* used up the largest budget and recorded its failure
C27_Witness ==
    /\ pc = "returned"
    /\ req = "price"
    /\ budget = MaxAttempts
    /\ http_calls = MaxAttempts
    /\ n_failure = 1
    /\ ~raised

\* C29: no HTTP attempt starts while should_skip() is true
C29_NoAttemptWhileSkipping ==
    [][DoRequest => ~should_skip(state, now)]_vars

\* C30: consecutive_failures is a natural number, and from the threshold on
\* auto_pause_until is set; auto_pause_until goes from set to None, and
\* paused from true to false, in resume() only
C30_TrackerInvariants ==
    /\ [](/\ state.consecutive_failures \in Nat
          /\ state.consecutive_failures >= FailureThreshold
                => state.auto_pause_until # None)
    /\ [][state.auto_pause_until # None /\ state'.auto_pause_until = None
             => Resume]_vars
    /\ [][state.paused /\ ~state'.paused => Resume]_vars

\* C30 happens: past the threshold, with the window armed and the user's
\* pause on top, in the middle of a call
C30_Witness ==
    /\ state.consecutive_failures > FailureThreshold
    /\ state.auto_pause_until # None
    /\ state.paused
    /\ pc = "make_request_ret"

\* C26: FailureState has one writer at a time: resume() is never part-way
\* through its assignments while record_success or record_failure is
\* part-way through its own, and pause() never assigns in the middle of
\* one of them
C26_SingleWriter ==
    /\ [](ui_pc = "idle" \/ rec_pc = "idle")
    /\ [][PauseAssigns => rec_pc = "idle"]_vars

\* a request to fetch: the price timer, a single-shot timer or a change of
\* the settings calls _update_price
FetchRequested == TimerFires \/ SingleShotFires \/ SettingsChanged

\* C25: no two runs of PriceWorker.fetch overlap, the worker is inside
\* fetch only while the one thread runs, and a request to fetch that comes
\* while a thread is running or while is_paused() is true starts no thread
C25_OneFetchInFlight ==
    /\ [](runs <= 1)
    /\ [](fetch_pos # "none" => fetch_thread = "running" /\ runs = 1)
    /\ [][FetchRequested /\ (fetch_thread = "running" \/ should_skip(state, now))
            => runs' = runs /\ fetch_thread' = fetch_thread]_vars
    /\ [][FetchRequested /\ fetch_thread' # fetch_thread
            => runs = 0 /\ runs' = 1 /\ ~should_skip(state, now)]_vars

\* the settings changed while the thread was inside a request, and there
\* is still one run
C25_Witness ==
    /\ fetch_thread = "running"
    /\ runs = 1
    /\ fetch_pos = "main"
    /\ pc = "do_request"
    /\ http_calls = 1
    /\ budget # stop_after_attempt(retry_attempts)

\* C28: the one-minute timer calls resume() only when an auto-pause is
\* armed and only when its window no longer makes should_skip() true; when
\* it does, a fetch is requested; and once the window has elapsed the
\* timer's next firing does call resume()
C28_AutoResumeTimer ==
    /\ [][CheckAutoResume => state.auto_pause_until # None]_vars
    /\ [][CheckAutoResume => ~WindowSkips]_vars
    /\ [][CheckAutoResume
            => state' = resume(state) /\ singleshots' = singleshots + 1]_vars
    /\ [](state.auto_pause_until # None /\ now >= state.auto_pause_until[1]
            => check_auto_resume_resumes(state, now))

====
